---- MODULE Spec2Model ----
(***************************************************************************)
(* Batch conversion orchestrator of mimic-iv-ecg-to-dcm (run_convert.py):  *)
(* the resume/ledger engine, the worker pool, the per-task isolation layer *)
(* with its hard timeout, and the structural validator.                    *)
(***************************************************************************)
EXTENDS Integers, Sequences, FiniteSets, TLC

\* ------------------------------------------------------------------ bounds
\* Number of rows of the task list (input_csv).
NumRows == 2
\* Number of invocations of run_batch in the kill/restart specification.
MaxRuns == 2

\* --------------------------------------------------------------- constants
\* pandas' missing value (pd.NA / NaN / None) in a ledger cell or a result.
NA == <<"<NA>">>

Digits == <<"1", "2", "3", "4", "5", "6", "7", "8", "9">>

\* The raw task id of row i, as df[study_id_col].tolist() hands it over:
\* an integer, a float rendering of it ("2.0"), or a padded string.
RawId(i) ==
  CASE i % 3 = 1 -> <<Digits[i]>>
    [] i % 3 = 2 -> <<Digits[i], ".", "0">>
    [] OTHER     -> <<" ", Digits[i]>>

Rows == 1..NumRows

\* ------------------------------------------------------- _normalize_study_id
RECURSIVE LStrip(_)
LStrip(s) == IF s # <<>> /\ Head(s) = " " THEN LStrip(Tail(s)) ELSE s

RECURSIVE RStrip(_)
RStrip(s) ==
  IF s # <<>> /\ s[Len(s)] = " " THEN RStrip(SubSeq(s, 1, Len(s) - 1)) ELSE s

Strip(s) == RStrip(LStrip(s))

EndsWithDotZero(s) ==
  Len(s) >= 2 /\ s[Len(s) - 1] = "." /\ s[Len(s)] = "0"

\* s = str(x).strip(); if s.endswith(".0"): s = s[:-2]
NormalizeStudyId(x) ==
  LET s == Strip(x)
  IN  IF EndsWithDotZero(s) THEN SubSeq(s, 1, Len(s) - 2) ELSE s

\* os.path.join(_G["dcm_dir"], f"{sid}.dcm")
DcmPath(sid) == <<"dcm_dir", "/">> \o sid \o <<".dcm">>

AllPaths == {DcmPath(NormalizeStudyId(RawId(i))) : i \in Rows}

\* ---------------------------------------------------------------- artifacts
\* What pydicom.dcmread finds at a path: the fields of WaveformSequence[0]
\* that validate_dicom_ecg_quick reads.  exists = FALSE is an absent file.
Artifact(ex, wf, nch, ns, fs, interp, bits, hasdata, len) ==
  [exists |-> ex, wfseq |-> wf, n_ch |-> nch, n_samp |-> ns, fs |-> fs,
   interp |-> interp, bits |-> bits, hasdata |-> hasdata, datalen |-> len]

NoFile == Artifact(FALSE, FALSE, 0, 0, 0, "", 0, FALSE, 0)

\* What wfdb_to_dicom_ecg_phase1 writes for a record of 2 channels and 3
\* samples: SS, 16 bits, payload of n_samples * n_ch * 2 bytes.
GoodArtifact == Artifact(TRUE, TRUE, 2, 3, 500, "SS", 16, TRUE, 2 * 3 * 2)

\* The same artifact with one payload byte missing (a partial write, or a
\* file corrupted after the fact).
TruncatedArtifact ==
  [GoodArtifact EXCEPT !.datalen = GoodArtifact.datalen - 1]

ValidateWithoutLength(a) ==
  IF ~a.exists THEN [ok |-> FALSE, msg |-> "FileNotFoundError"]
  ELSE IF ~a.wfseq THEN [ok |-> FALSE, msg |-> "No WaveformSequence"]
  ELSE IF a.n_ch <= 0 \/ a.n_samp <= 0 \/ a.fs <= 0
    THEN [ok |-> FALSE, msg |-> "Invalid n_ch/n_samp/fs"]
  ELSE IF a.interp # "SS" THEN [ok |-> FALSE, msg |-> "Unexpected interpretation"]
  ELSE IF a.bits # 16 THEN [ok |-> FALSE, msg |-> "Unexpected bits allocated"]
  ELSE IF ~a.hasdata THEN [ok |-> FALSE, msg |-> "No WaveformData"]
  ELSE [ok |-> TRUE, msg |-> "OK"]

\* validate_dicom_ecg_quick: the checks in the order of the code; any
\* exception (a missing file among them) is caught and reported as a reason.
ValidateDicomEcgQuick(a) ==
  IF ~a.exists THEN [ok |-> FALSE, msg |-> "FileNotFoundError"]
  ELSE IF ~a.wfseq THEN [ok |-> FALSE, msg |-> "No WaveformSequence"]
  ELSE IF a.n_ch <= 0 \/ a.n_samp <= 0 \/ a.fs <= 0
    THEN [ok |-> FALSE, msg |-> "Invalid n_ch/n_samp/fs"]
  ELSE IF a.interp # "SS" THEN [ok |-> FALSE, msg |-> "Unexpected interpretation"]
  ELSE IF a.bits # 16 THEN [ok |-> FALSE, msg |-> "Unexpected bits allocated"]
  ELSE IF ~a.hasdata THEN [ok |-> FALSE, msg |-> "No WaveformData"]
  ELSE IF a.datalen # a.n_ch * a.n_samp * 2
    THEN [ok |-> FALSE, msg |-> "WaveformData length mismatch"]
  ELSE [ok |-> TRUE, msg |-> "OK"]

\* ------------------------------------------------------------------- state
VARIABLES
  cfg,       \* the command line and the two input tables (fixed per behaviour)
  files,     \* the output directory: path -> artifact
  durable,   \* output_csv on disk: "absent", "torn" or its rows
  errlog,    \* the error log file, append-only
  pc,        \* run_batch's position
  df,        \* run_batch's in-memory ledger
  todo,      \* todo_ids
  tasks,     \* futs: one future per to-do entry, with its worker and child
  pool,      \* the ProcessPoolExecutor: "none", "ok" or "broken"
  buffer,    \* results_buffer
  done,      \* done
  runsLeft,  \* invocations of run_batch still to come
  hist,      \* history of the current run, for stating the properties
  parquet    \* build_ecg_silver_parquet.py: the state of build_parquet

vars == <<cfg, parquet, files, durable, errlog, pc, df, todo, tasks, pool, buffer,
          done, runsLeft, hist>>

\* The state of build_parquet (build_ecg_silver_parquet.py) at line 262:
\*   input      the files iter_dicom_files yields, in order
\*   max_files  <<>> for None, <<N>> for --max_files N
\*   next       the position of the file the iterator yields next
\*   out_dir    shard index -> the rows of part-<index>.parquet
\*   summary    _build_summary.json, <<>> while it is not written
\*   read       the positions of the files dcmread was called on (history)
BuildState(input, max_files, shard_rows) ==
  [pc |-> "loop", input |-> input, max_files |-> max_files,
   shard_rows |-> shard_rows, next |-> 1,
   shard_idx |-> 0, buffer |-> <<>>, n_files |-> 0, n_bad |-> 0, n_rows |-> 0,
   out_dir |-> <<>>, summary |-> <<>>, read |-> <<>>]

\* build_parquet is not running.
NotBuilding == [BuildState(<<>>, <<>>, 1) EXCEPT !.pc = "none"]

NormIds == {NormalizeStudyId(RawId(i)) : i \in Rows}

\* A ledger cell pair as read from a CSV without the two result columns.
FreshRow(i) == [id |-> RawId(i), path |-> NA, err |-> NA]

\* input_csv: the task list.
InputRows == [i \in Rows |-> FreshRow(i)]


\* ------------------------------------------------------------ small helpers
FileAt(fs, p) == IF p \in DOMAIN fs THEN fs[p] ELSE NoFile

\* A TaskResult as the worker returns it: {"study_id", "dcm_path", "dcm_error"}.
Result(sid, path, err) == [study_id |-> sid, dcm_path |-> path, dcm_error |-> err]

\* The one-shot result queue of a child while nothing has been put on it.
EmptyQueue == Result(<<>>, NA, <<"<empty queue>">>)

\* The error texts of run_convert.py, as token sequences.
ErrMissing == <<"Missing df_info row for study_id">>
ErrTimeout == <<"Timeout>", "task_timeout_sec", "s">>
ErrNoResult == <<"No result returned (unexpected)">>
ErrValidation(msg) == <<"ValidationFailed: ", msg>>
ErrException(type) == <<type, ": ", "WFDB record has no d_signal">>
ErrWorkerCrash(type) == <<"WorkerCrash: ", type>>

\* One future of futs with the worker call and the child process behind it.
\*   st    queued | spawned | written | done | collected
\*   res   the value the worker call returned (exc = "none")
\*   exc   the exception the future holds instead ("none": it holds res)
\*   child none | alive | dead: the child process of the isolation layer
\*   ran   how many times a worker has begun _convert_one_with_timeout on it
QueuedTask(sid) ==
  [sid |-> sid, st |-> "queued", res |-> EmptyQueue,
   exc |-> "none", child |-> "none", ran |-> 0]

Returned(t, r) == [t EXCEPT !.st = "done", !.res = r]

AbsentCsv == [state |-> "absent", rows |-> <<>>]
TornCsv == [state |-> "torn", rows |-> <<>>]
Csv(rows) == [state |-> "ok", rows |-> rows]

RunHeader(n) == [kind |-> "run", todo |-> n, id |-> <<>>, err |-> <<>>]
ErrorLine(r) == [kind |-> "err", todo |-> 0, id |-> r.study_id, err |-> r.dcm_error]

\* ------------------------------------------------------------ resume logic
RowIsSuccessTrustsLedger(row, fs) ==
  LET p == row.path
  IN  IF p = NA THEN FALSE
      ELSE IF p = <<>> THEN FALSE
      ELSE TRUE

\* _row_is_success: the recorded locator is non-null, non-empty, names an
\* existing file, and the validator accepts that file.
RowIsSuccess(row, fs) ==
  LET p == row.path
  IN  IF p = NA THEN FALSE
      ELSE IF p = <<>> THEN FALSE
      ELSE IF ~FileAt(fs, p).exists THEN FALSE
      ELSE ValidateDicomEcgQuick(FileAt(fs, p)).ok

\* todo_ids = df.loc[~mask_success, study_id_col].tolist()
TodoAllIds(rows, fs) == [i \in DOMAIN rows |-> rows[i].id]

RECURSIVE TodoIds(_, _)
TodoIds(rows, fs) ==
  IF rows = <<>> THEN <<>>
  ELSE IF RowIsSuccess(Head(rows), fs) THEN TodoIds(Tail(rows), fs)
  ELSE <<Head(rows).id>> \o TodoIds(Tail(rows), fs)

\* ----------------------------------------------------------- _apply_results
\* The row of r = DataFrame(results).set_index("_sid_norm") with index n.
ResultAt(results, n) ==
  results[CHOOSE j \in DOMAIN results : NormalizeStudyId(results[j].study_id) = n]

HasResult(results, n) ==
  \E j \in DOMAIN results : NormalizeStudyId(results[j].study_id) = n

ApplyByPosition(rows, results) ==
  [i \in DOMAIN rows |->
     IF i \in DOMAIN results
     THEN [rows[i] EXCEPT !.path = results[i].dcm_path, !.err = results[i].dcm_error]
     ELSE rows[i]]

\* Line 300, for one row: the cell of the temporary column _sid_norm.
SidNorm(row) == NormalizeStudyId(row.id)

\* Lines 304-308, the "Update rows" loop, for one row: a ledger row whose
\* normalized id is in the batch takes the batch's output locator and error.
UpdateRow(row, sid_norm, results) ==
  IF HasResult(results, sid_norm)
  THEN [row EXCEPT !.path = ResultAt(results, sid_norm).dcm_path,
                   !.err = ResultAt(results, sid_norm).dcm_error]
  ELSE row

ApplyKeepsSidNorm(rows, results) ==
  [i \in DOMAIN rows |->
     [sid_norm |-> SidNorm(rows[i])]
       @@ UpdateRow(rows[i], SidNorm(rows[i]), results)]

\* Lines 297-317 on the frame: the temporary column is added (line 300),
\* read by the loop, and dropped (line 317); the frame keeps its columns.
ApplyRows(rows, results) ==
  [i \in DOMAIN rows |-> UpdateRow(rows[i], SidNorm(rows[i]), results)]

\* The "Log errors" block: one line per result whose error is not null.
RECURSIVE LinesForAll(_)
LinesForAll(results) ==
  IF results = <<>> THEN <<>>
  ELSE <<ErrorLine(Head(results))>> \o LinesForAll(Tail(results))

RECURSIVE ErrorLines(_)
ErrorLines(results) ==
  IF results = <<>> THEN <<>>
  ELSE IF Head(results).dcm_error # NA /\ Head(results).dcm_error # <<"None">>
       THEN <<ErrorLine(Head(results))>> \o ErrorLines(Tail(results))
       ELSE ErrorLines(Tail(results))


\* ------------------------------------------------------------------ history
\* What the properties need to remember of a run; no action reads it.
\*   df0      the ledger as loaded at the start of the current run
\*   dur0     output_csv as it was at the start of the current run
\*   arrived  the results of the current run in arrival order
\*   killed   the run was killed and none has started since
\*   restart  the current run is the restart after a kill
\*   midwrite ... and the kill came while to_csv was rewriting output_csv
\*   lost     the to-do ids of the killed run whose result no completed
\*            to_csv wrote
\*   flushed  the last result per task id that a completed to_csv has written
\*   nflushed how many results of the current run a completed to_csv has written
NoHistory ==
  [df0 |-> <<>>, dur0 |-> AbsentCsv, arrived |-> <<>>, killed |-> FALSE,
   restart |-> FALSE, midwrite |-> FALSE, lost |-> {}, flushed |-> {}, nflushed |-> 0]

Flushed(r) ==
  [id |-> NormalizeStudyId(r.study_id), path |-> r.dcm_path, err |-> r.dcm_error]

\* The results of the current run that _apply_results has merged so far.
Merged(h, buf) == SubSeq(h.arrived, 1, Len(h.arrived) - Len(buf))

Range(s) == {s[i] : i \in DOMAIN s}

\* --------------------------------------------------------------- run_batch
\* Lines 232-258: load the ledger (output_csv if it exists, else input_csv),
\* fail on a missing id column, add the two result columns, compute the to-do
\* list, write the run header; with nothing to do go straight to to_csv.
StartRun ==
  /\ pc \in {"idle", "done"}
  /\ runsLeft > 0
  /\ runsLeft' = runsLeft - 1
  /\ pool' = "none"
  /\ tasks' = <<>>
  /\ buffer' = <<>>
  /\ done' = 0
  /\ UNCHANGED <<cfg, parquet, files, durable>>
  /\ IF durable.state = "torn" \/ ~cfg.hasIdCol
     THEN \* pandas.errors.EmptyDataError, or KeyError(study_id_col)
          /\ pc' = "failed"
          /\ df' = <<>>
          /\ todo' = <<>>
          /\ errlog' = errlog
          /\ hist' = [hist EXCEPT !.df0 = <<>>, !.dur0 = durable, !.arrived = <<>>,
                                  !.nflushed = 0, !.killed = FALSE,
                                  !.restart = hist.killed]
     ELSE LET rows == IF durable.state = "ok" THEN durable.rows ELSE InputRows
              ids == TodoIds(rows, files)
          IN  /\ df' = rows
              /\ todo' = ids
              /\ errlog' = Append(errlog, RunHeader(Len(ids)))
              /\ pc' = IF ids = <<>> THEN "final_open" ELSE "dispatch"
              /\ hist' = [hist EXCEPT !.df0 = rows, !.dur0 = durable,
                                      !.arrived = <<>>, !.nflushed = 0,
                                      !.killed = FALSE, !.restart = hist.killed]

FutsSkipLast(ids) == [k \in 1..(Len(ids) - 1) |-> QueuedTask(ids[k])]

\* Line 269: one future per entry of todo_ids.
Futs(ids) == [k \in 1..Len(ids) |-> QueuedTask(ids[k])]

\* Lines 264-269: create the pool and submit one call per to-do id.
Submit ==
  /\ pc = "dispatch"
  /\ pool' = "ok"
  /\ tasks' = Futs(todo)
  /\ pc' = "loop"
  /\ UNCHANGED <<cfg, parquet, files, durable, errlog, df, todo, buffer, done, runsLeft, hist>>

\* ------------------------------------------------------------- worker pool
Busy == {k \in DOMAIN tasks : tasks[k].st \in {"spawned", "written"}}

\* The pool hands the queued calls to free workers in submission order.
NextQueued(k) ==
  /\ pool = "ok"
  /\ k \in DOMAIN tasks
  /\ tasks[k].st = "queued"
  /\ \A j \in DOMAIN tasks : j < k => tasks[j].st # "queued"
  /\ Cardinality(Busy) < cfg.W

Sid(k) == NormalizeStudyId(tasks[k].sid)

FastSkipIgnoresOverwrite(k) ==
  /\ FileAt(files, DcmPath(Sid(k))).exists
  /\ ValidateDicomEcgQuick(FileAt(files, DcmPath(Sid(k)))).ok

\* Lines 163-166: overwrite off and the output exists and validates.
FastSkip(k) ==
  /\ ~cfg.overwrite
  /\ FileAt(files, DcmPath(Sid(k))).exists
  /\ ValidateDicomEcgQuick(FileAt(files, DcmPath(Sid(k)))).ok

OnlyTasks == <<cfg, parquet, files, durable, errlog, pc, df, todo, pool, buffer, done,
               runsLeft, hist>>

WorkerStartWithoutLookup(k) ==
  /\ NextQueued(k)
  /\ cfg.metaOk
  /\ tasks' = [tasks EXCEPT ![k] =
       LET t == [tasks[k] EXCEPT !.ran = @ + 1]
       IN  IF FastSkip(k)
             THEN Returned(t, Result(Sid(k), DcmPath(Sid(k)), NA))
           ELSE [t EXCEPT !.st = "spawned", !.child = "alive"]]
  /\ UNCHANGED OnlyTasks

\* Lines 156-183 of _convert_one_with_timeout, up to p.start(): return at
\* once on a fast skip or a missing metadata row, else spawn the child.
\* The worker's initializer has run (the metadata table loaded).
WorkerStart(k) ==
  /\ NextQueued(k)
  /\ cfg.metaOk
  /\ tasks' = [tasks EXCEPT ![k] =
       LET t == [tasks[k] EXCEPT !.ran = @ + 1]
       IN  IF FastSkip(k)
             THEN Returned(t, Result(Sid(k), DcmPath(Sid(k)), NA))
           ELSE IF Sid(k) \notin cfg.meta
             THEN Returned(t, Result(Sid(k), NA, ErrMissing))
           ELSE [t EXCEPT !.st = "spawned", !.child = "alive"]]
  /\ UNCHANGED OnlyTasks

\* An exception escapes the worker call (p.start() raising OSError when the
\* system cannot create the child): the future holds the exception.
WorkerRaise(k) ==
  /\ NextQueued(k)
  /\ cfg.metaOk
  /\ ~FastSkip(k)
  /\ Sid(k) \in cfg.meta
  /\ tasks' = [tasks EXCEPT ![k] =
       [@ EXCEPT !.ran = @ + 1, !.st = "done", !.exc = "OSError"]]
  /\ UNCHANGED OnlyTasks

\* A broken pool fails every future that is not done with BrokenProcessPool.
BreakPool(ts) ==
  [k \in DOMAIN ts |->
     IF ts[k].st \in {"done", "collected"} THEN ts[k]
     ELSE [ts[k] EXCEPT !.st = "done", !.exc = "BrokenProcessPool"]]

\* _init_worker raises (the pickle cannot be read, or has no study_id
\* column): the executor marks the pool broken.
InitWorkerFail ==
  /\ pool = "ok"
  /\ ~cfg.metaOk
  /\ \E k \in DOMAIN tasks : tasks[k].st = "queued"
  /\ pool' = "broken"
  /\ tasks' = BreakPool(tasks)
  /\ UNCHANGED <<cfg, parquet, files, durable, errlog, pc, df, todo, buffer, done, runsLeft, hist>>

\* A worker process dies abruptly (killed by the system) while it runs call
\* k: the executor marks the pool broken.
WorkerDies(k) ==
  /\ pool = "ok"
  /\ k \in Busy
  /\ pool' = "broken"
  /\ tasks' = BreakPool(tasks)
  /\ UNCHANGED <<cfg, parquet, files, durable, errlog, pc, df, todo, buffer, done, runsLeft, hist>>

\* ------------------ child process (_convert_target) and the worker's join
\* wfdb_to_dicom_ecg_phase1 saves the artifact.
ChildWrite(k, art) ==
  /\ pool = "ok"
  /\ k \in DOMAIN tasks
  /\ tasks[k].st = "spawned"
  /\ files' = [files EXCEPT ![DcmPath(Sid(k))] = art]
  /\ tasks' = [tasks EXCEPT ![k].st = "written"]
  /\ UNCHANGED <<cfg, parquet, durable, errlog, pc, df, todo, pool, buffer, done, runsLeft, hist>>

ChildResultTrustsWriter(k) == Result(Sid(k), DcmPath(Sid(k)), NA)

\* Lines 139-143: validate what was saved; the tuple put on the queue.
ChildResult(k) ==
  LET v == ValidateDicomEcgQuick(FileAt(files, DcmPath(Sid(k))))
  IN  IF ~v.ok THEN Result(Sid(k), NA, ErrValidation(v.msg))
      ELSE Result(Sid(k), DcmPath(Sid(k)), NA)

JoinedForwardsQueue(k, q) ==
  [Returned(tasks[k], Result(q.study_id, q.dcm_path, q.dcm_error))
   EXCEPT !.child = "dead"]

\* Lines 183-195, the child having exited within the deadline: the worker,
\* blocked in p.join, forwards what the child put on the queue, or reports
\* that it put nothing.
Joined(k, q) ==
  [Returned(tasks[k],
     IF q # EmptyQueue THEN Result(q.study_id, q.dcm_path, q.dcm_error)
     ELSE Result(Sid(k), NA, ErrNoResult))
   EXCEPT !.child = "dead"]

\* The child validates, puts its result on the queue and exits.
ChildReport(k) ==
  /\ pool = "ok"
  /\ k \in DOMAIN tasks
  /\ tasks[k].st = "written"
  /\ tasks' = [tasks EXCEPT ![k] = Joined(k, ChildResult(k))]
  /\ UNCHANGED OnlyTasks

ChildRaiseEscapes(k) ==
  /\ pool = "ok"
  /\ k \in DOMAIN tasks
  /\ tasks[k].st = "spawned"
  /\ tasks' = [tasks EXCEPT ![k] = Joined(k, EmptyQueue)]
  /\ UNCHANGED OnlyTasks

\* Lines 144-145: an exception while reading or building is caught in the
\* child and put on the queue.
ChildRaise(k) ==
  /\ pool = "ok"
  /\ k \in DOMAIN tasks
  /\ tasks[k].st = "spawned"
  /\ tasks' = [tasks EXCEPT ![k] =
       Joined(k, Result(Sid(k), NA, ErrException("ValueError")))]
  /\ UNCHANGED OnlyTasks

\* The child dies without putting anything on the queue.
ChildDie(k) ==
  /\ pool = "ok"
  /\ k \in DOMAIN tasks
  /\ tasks[k].st \in {"spawned", "written"}
  /\ tasks' = [tasks EXCEPT ![k] = Joined(k, EmptyQueue)]
  /\ UNCHANGED OnlyTasks

\* ------------------------------------------- isolation layer: the deadline
\* p.terminate(); p.join(timeout=5): the join returns when the child has
\* exited or when its 5 seconds are over, whichever is first; nothing checks
\* which.
Terminate(survives) == IF survives THEN "alive" ELSE "dead"

JoinWithoutTimeout(k, survives) ==
  /\ FALSE
  /\ UNCHANGED vars

\* Lines 183-188, the deadline over and the child still alive.
JoinTimeout(k, survives) ==
  /\ pool = "ok"
  /\ k \in DOMAIN tasks
  /\ tasks[k].st \in {"spawned", "written"}
  /\ tasks' = [tasks EXCEPT ![k] =
       [Returned(@, Result(Sid(k), NA, ErrTimeout)) EXCEPT
          !.child = Terminate(survives)]]
  /\ UNCHANGED OnlyTasks

\* -------------------------------------------------- run_batch: collect loop
CheckpointEveryResult(d, K) == K > 0

\* Line 281.
CheckpointDue(d, K) == K > 0 /\ d % K = 0

\* _apply_results on the ledger: nothing for an empty batch (line 295).
ApplyResults(rows, results) ==
  IF results = <<>> THEN rows ELSE ApplyRows(rows, results)

FutureResultDropsError(t) ==
  IF t.exc = "none" THEN t.res
  ELSE Result(NormalizeStudyId(t.sid), NA, NA)

\* Lines 273-276: the future's value, or a WorkerCrash result in its place
\* when retrieving it raises.
FutureResult(t) ==
  IF t.exc = "none" THEN t.res
  ELSE Result(NormalizeStudyId(t.sid), NA, ErrWorkerCrash(t.exc))

CollectedRetryFailed(t, r) ==
  IF r.dcm_error = NA THEN [t EXCEPT !.st = "collected"]
  ELSE [t EXCEPT !.st = "queued", !.exc = "none"]

\* The future leaves as_completed: it is yielded once.
Collected(t, r) == [t EXCEPT !.st = "collected"]

\* Lines 271-284 for one completed future, up to the to_csv of a checkpoint.
Collect(k) ==
  /\ pc = "loop"
  /\ k \in DOMAIN tasks
  /\ tasks[k].st = "done"
  /\ LET r == FutureResult(tasks[k])
         buf == Append(buffer, r)
     IN  /\ tasks' = [tasks EXCEPT ![k] = Collected(@, r)]
         /\ done' = done + 1
         /\ hist' = [hist EXCEPT !.arrived = Append(@, [k |-> k, res |-> r])]
         /\ IF CheckpointDue(done + 1, cfg.K)
            THEN /\ df' = ApplyResults(df, buf)
                 /\ errlog' = errlog \o ErrorLines(buf)
                 /\ buffer' = <<>>
                 /\ pc' = "ckpt_open"
            ELSE /\ buffer' = buf
                 /\ UNCHANGED <<df, errlog, pc>>
  /\ UNCHANGED <<cfg, parquet, files, durable, todo, pool, runsLeft>>

ExitLoopWithoutFlush ==
  /\ pc = "loop"
  /\ \A k \in DOMAIN tasks : tasks[k].st = "collected"
  /\ pool' = "none"
  /\ buffer' = <<>>
  /\ pc' = "final_open"
  /\ UNCHANGED <<cfg, parquet, files, durable, errlog, df, todo, tasks, done, runsLeft, hist>>

\* Lines 286-289: every future has been yielded, the executor shuts down,
\* and what is left in the buffer is merged.
ExitLoop ==
  /\ pc = "loop"
  /\ \A k \in DOMAIN tasks : tasks[k].st = "collected"
  /\ pool' = "none"
  /\ df' = ApplyResults(df, buffer)
  /\ errlog' = errlog \o ErrorLines(buffer)
  /\ buffer' = <<>>
  /\ pc' = "final_open"
  /\ UNCHANGED <<cfg, parquet, files, durable, todo, tasks, done, runsLeft, hist>>

\* df.to_csv(output_csv) opens the file for writing, which empties it ...
OpenCsv ==
  /\ pc \in {"ckpt_open", "final_open"}
  /\ durable' = TornCsv
  /\ pc' = IF pc = "ckpt_open" THEN "ckpt_flush" ELSE "final_flush"
  /\ UNCHANGED <<cfg, parquet, files, errlog, df, todo, tasks, pool, buffer, done, runsLeft, hist>>

\* ... and writes every row and closes it (lines 284, 291 and 257).
CloseCsv ==
  /\ pc \in {"ckpt_flush", "final_flush"}
  /\ durable' = Csv(df)
  /\ pc' = IF pc = "ckpt_flush" THEN "loop" ELSE "done"
  /\ hist' =
       LET new == {Flushed(Merged(hist, buffer)[j].res) :
                     j \in 1..(Len(hist.arrived) - Len(buffer))}
       IN  [hist EXCEPT
              !.flushed = {f \in @ : \A g \in new : g.id # f.id} \cup new,
              !.nflushed = Len(hist.arrived) - Len(buffer)]
  /\ UNCHANGED <<cfg, parquet, files, errlog, df, todo, tasks, pool, buffer, done, runsLeft>>

\* ------------------------------------------------------------- environment
Running == {"dispatch", "loop", "ckpt_open", "ckpt_flush", "final_open", "final_flush"}

\* The orchestrating process is killed: its memory, its pool and the
\* children go; the files stay as they are.
Kill ==
  /\ pc \in Running
  /\ runsLeft > 0
  /\ pc' = "idle"
  /\ df' = <<>>
  /\ todo' = <<>>
  /\ tasks' = <<>>
  /\ pool' = "none"
  /\ buffer' = <<>>
  /\ done' = 0
  /\ hist' = [hist EXCEPT
       !.killed = TRUE,
       !.midwrite = pc \in {"ckpt_flush", "final_flush"},
       !.lost = Range(todo) \
                  {todo[hist.arrived[j].k] : j \in 1..hist.nflushed}]
  /\ UNCHANGED <<cfg, parquet, files, durable, errlog, runsLeft>>

\* Between two runs an artifact is deleted or corrupted.
Tamper(p, art) ==
  /\ pc \in {"idle", "done"}
  /\ runsLeft > 0
  /\ ValidateDicomEcgQuick(FileAt(files, p)).ok
  /\ files' = [files EXCEPT ![p] = art]
  /\ UNCHANGED <<cfg, parquet, durable, errlog, pc, df, todo, tasks, pool, buffer, done,
                 runsLeft, hist>>


\* ------------------------------------------------------- initial conditions
N1 == NormalizeStudyId(RawId(1))
N2 == NormalizeStudyId(RawId(2))

\* The worker counts (--workers) and checkpoint intervals (--checkpoint)
\* tried; an interval of 0 disables the checkpoints.
WorkerCounts == {1, 2}
CheckpointIntervals == {0, 1, 2}

Config(hasIdCol, metaOk, meta, K, W, overwrite) ==
  [hasIdCol |-> hasIdCol, metaOk |-> metaOk, meta |-> meta, K |-> K, W |-> W,
   overwrite |-> overwrite]

\* The command lines and input tables tried, each with whether the output
\* directory and ledger are fresh or left by an earlier run:
\*   a fresh start with a complete metadata table;
\*   a restart with --overwrite and a metadata table without row 2's id;
\*   a restart without --overwrite;
\*   a restart without --overwrite and a metadata table without row 2's id;
\*   a task list without the id column; a metadata table that cannot be used.
Scenarios ==
  {<<Config(TRUE, TRUE, NormIds, K, W, FALSE), TRUE>> :
     K \in CheckpointIntervals, W \in WorkerCounts}
  \cup {<<Config(TRUE, TRUE, NormIds \ {N2}, K, W, TRUE), FALSE>> :
     K \in CheckpointIntervals, W \in WorkerCounts}
  \cup {<<Config(TRUE, TRUE, NormIds, K, W, FALSE), FALSE>> :
     K \in CheckpointIntervals, W \in WorkerCounts}
  \cup {<<Config(TRUE, TRUE, NormIds \ {N2}, K, W, FALSE), FALSE>> :
     K \in CheckpointIntervals, W \in WorkerCounts}
  \cup {<<Config(FALSE, TRUE, NormIds, 1, 1, FALSE), TRUE>>,
        <<Config(TRUE, FALSE, NormIds, 1, 1, FALSE), TRUE>>}

EmptyDir == [p \in AllPaths |-> NoFile]

\* What an earlier, killed run left: row 1 converted and recorded, row 2
\* converted but its result not yet written to the ledger.
PriorCsv ==
  Csv([i \in Rows |->
         IF i = 1 THEN [id |-> RawId(1), path |-> DcmPath(N1), err |-> NA]
         ELSE FreshRow(i)])

PriorDir ==
  [p \in AllPaths |-> IF p \in {DcmPath(N1), DcmPath(N2)} THEN GoodArtifact ELSE NoFile]

InitWith(c, fresh, runs) ==
  /\ cfg = c
  /\ files = IF fresh THEN EmptyDir ELSE PriorDir
  /\ durable = IF fresh THEN AbsentCsv ELSE PriorCsv
  /\ errlog = <<>>
  /\ pc = "idle"
  /\ df = <<>>
  /\ todo = <<>>
  /\ tasks = <<>>
  /\ pool = "none"
  /\ buffer = <<>>
  /\ done = 0
  /\ runsLeft = runs
  /\ parquet = NotBuilding
  /\ hist = [NoHistory EXCEPT
       !.dur0 = durable,
       !.flushed = IF fresh THEN {}
                   ELSE {[id |-> N1, path |-> DcmPath(N1), err |-> NA]}]

\* One invocation of run_batch, with every fault of a task, a child or a
\* worker the environment can produce.
Init == \E s \in Scenarios : InitWith(s[1], s[2], 1)

Artifacts == {GoodArtifact, TruncatedArtifact}

Next ==
  \/ StartRun
  \/ Submit
  \/ \E k \in Rows : WorkerStart(k)
  \/ \E k \in Rows : WorkerRaise(k)
  \/ InitWorkerFail
  \/ \E k \in Rows : WorkerDies(k)
  \/ \E k \in Rows, art \in Artifacts : ChildWrite(k, art)
  \/ \E k \in Rows : ChildReport(k)
  \/ \E k \in Rows : ChildRaise(k)
  \/ \E k \in Rows : ChildDie(k)
  \/ \E k \in Rows, survives \in BOOLEAN : JoinTimeout(k, survives)
  \/ \E k \in Rows : Collect(k)
  \/ ExitLoop
  \/ OpenCsv
  \/ CloseCsv

Spec == Init /\ [][Next]_vars

\* Up to MaxRuns invocations of run_batch on the same ledger with one worker,
\* the process killed at any point and artifacts deleted or corrupted between
\* runs; a task converts, is skipped, or fails for its missing metadata row.
\* A task list without the id column makes every run fail as it starts.
ResumeScenarios ==
  {s \in Scenarios :
     ~s[1].hasIdCol \/ (s[1].metaOk /\ s[1].W = 1)}

InitResume == \E s \in ResumeScenarios : InitWith(s[1], s[2], MaxRuns)

NextResume ==
  \/ StartRun
  \/ Submit
  \/ \E k \in Rows : WorkerStart(k)
  \/ \E k \in Rows : ChildWrite(k, GoodArtifact)
  \/ \E k \in Rows : ChildReport(k)
  \/ \E k \in Rows : Collect(k)
  \/ ExitLoop
  \/ OpenCsv
  \/ CloseCsv
  \/ Kill
  \/ \E p \in AllPaths, art \in {NoFile, TruncatedArtifact} : Tamper(p, art)

SpecResume == InitResume /\ [][NextResume]_vars


\* One invocation of run_batch under the scheduling the code relies on: the
\* orchestrator and the workers keep running, and a deadline that a child
\* outlives does elapse.  Nothing obliges a child to finish, and no fault is
\* obliged to happen.
Fairness ==
  /\ WF_vars(StartRun)
  /\ WF_vars(Submit)
  /\ WF_vars(InitWorkerFail)
  /\ \A k \in Rows : WF_vars(WorkerStart(k) \/ WorkerRaise(k))
  /\ \A k \in Rows : WF_vars(\E survives \in BOOLEAN : JoinTimeout(k, survives))
  /\ \A k \in Rows : WF_vars(Collect(k))
  /\ WF_vars(ExitLoop)
  /\ WF_vars(OpenCsv)
  /\ WF_vars(CloseCsv)

\* The fresh starts with a metadata table that holds the first two studies
\* (a later task fails for its missing metadata row), and the two
\* configuration errors.
FairScenarios ==
  {<<Config(TRUE, TRUE, {N1, N2}, K, W, FALSE), TRUE>> :
     K \in CheckpointIntervals, W \in WorkerCounts}
  \cup {s \in Scenarios : ~s[1].hasIdCol \/ ~s[1].metaOk}

InitFair == \E s \in FairScenarios : InitWith(s[1], s[2], 1)

FairSpec == InitFair /\ [][Next]_vars /\ Fairness


\* A ledger in which two rows carry the same study under two spellings of
\* its id ("1" and "1.0"): nothing in run_batch requires the ids of the task
\* list to be distinct, before or after normalization.
CollidingRows ==
  [i \in Rows |->
     [FreshRow(i) EXCEPT !.id = IF i = 2 THEN <<Digits[1], ".", "0">> ELSE @]]

InitCollide ==
  /\ cfg \in {Config(TRUE, TRUE, NormIds, 0, W, ow) :
                W \in WorkerCounts, ow \in BOOLEAN}
  /\ files = EmptyDir
  /\ durable = Csv(CollidingRows)
  /\ errlog = <<>>
  /\ pc = "idle"
  /\ df = <<>>
  /\ todo = <<>>
  /\ tasks = <<>>
  /\ pool = "none"
  /\ buffer = <<>>
  /\ done = 0
  /\ runsLeft = 1
  /\ parquet = NotBuilding
  /\ hist = [NoHistory EXCEPT !.dur0 = durable]

\* One run on that ledger, from the start to the end of the result loop,
\* without checkpoints: the to-do list, the dispatch, the workers and the
\* children, and the collection of the results into the buffer.
NextCollide ==
  \/ StartRun
  \/ Submit
  \/ \E k \in Rows : WorkerStart(k)
  \/ \E k \in Rows, art \in Artifacts : ChildWrite(k, art)
  \/ \E k \in Rows : ChildReport(k)
  \/ \E k \in Rows : ChildRaise(k)
  \/ \E k \in Rows : ChildDie(k)
  \/ \E k \in Rows, survives \in BOOLEAN : JoinTimeout(k, survives)
  \/ \E k \in Rows : Collect(k)

SpecCollide == InitCollide /\ [][NextCollide]_vars

\* The artifacts put before the validator: an absent file, and every
\* combination of these values of the fields it reads.
ChannelCounts == {0, 1, 2}
SampleCounts == {0, 3}
Frequencies == {0, 500}
Interpretations == {"SS", "US"}
BitsAllocated == {8, 16}
PayloadLengths == {0, 5, 6, 11, 12, 13}

ArtifactSpace ==
  {NoFile} \cup
  {Artifact(TRUE, wf, nch, ns, fs, interp, bits, hasdata, len) :
     wf \in BOOLEAN, nch \in ChannelCounts, ns \in SampleCounts,
     fs \in Frequencies, interp \in Interpretations, bits \in BitsAllocated,
     hasdata \in BOOLEAN, len \in PayloadLengths}

\* A ledger that records every row as converted.
RecordedCsv ==
  Csv([i \in Rows |->
         [id |-> RawId(i), path |-> DcmPath(NormalizeStudyId(RawId(i))), err |-> NA]])

\* Every artifact is good but the one of row 1, which is any of ArtifactSpace.
InitValidate ==
  /\ cfg = Config(TRUE, TRUE, NormIds, 0, 1, FALSE)
  /\ \E a \in ArtifactSpace :
       files = [p \in AllPaths |-> IF p = DcmPath(N1) THEN a ELSE GoodArtifact]
  /\ durable = RecordedCsv
  /\ errlog = <<>>
  /\ pc = "idle"
  /\ df = <<>>
  /\ todo = <<>>
  /\ tasks = <<>>
  /\ pool = "none"
  /\ buffer = <<>>
  /\ done = 0
  /\ runsLeft = 1
  /\ parquet = NotBuilding
  /\ hist = [NoHistory EXCEPT !.dur0 = durable]

\* One run on it: the resume logic validates every recorded artifact, and a
\* child validates what it has written.
NextValidate ==
  \/ StartRun
  \/ Submit
  \/ \E k \in Rows : WorkerStart(k)
  \/ \E k \in Rows, art \in Artifacts : ChildWrite(k, art)
  \/ \E k \in Rows : ChildReport(k)
  \/ \E k \in Rows : Collect(k)
  \/ ExitLoop
  \/ OpenCsv
  \/ CloseCsv

SpecValidate == InitValidate /\ [][NextValidate]_vars

\* ------------------------------------------------ wfdb_to_dicom_ecg_phase1
\* The digital samples of a WFDB record, d_signal[sample][channel], as
\* wfdb.rdrecord(physical=False) returns them (64-bit integers).
SampleValues == {-32769, -32768, -1, 0, 255, 256, 32767, 32768}
MatrixShapes == {<<1, 1>>, <<1, 2>>, <<2, 1>>, <<2, 2>>}

SampleMatrices ==
  UNION {[1..sh[1] -> [1..sh[2] -> SampleValues]] : sh \in MatrixShapes}

\* np.asarray(x, dtype=np.int16) of a 64-bit integer: the low 16 bits, read
\* as a signed number.
AsInt16(v) ==
  LET u == v % 65536
  IN  IF u >= 32768 THEN u - 65536 ELSE u

\* sig.astype("<i2") ... tobytes(): the two bytes of a sample, low byte first.
BytesLE(v) ==
  LET u == v % 65536
  IN  <<u % 256, u \div 256>>

\* reshape(-1, order="C"): row after row, a row being one sample instant.
RECURSIVE FlattenC(_)
FlattenC(m) == IF m = <<>> THEN <<>> ELSE Head(m) \o FlattenC(Tail(m))

RECURSIVE ToBytes(_)
ToBytes(flat) ==
  IF flat = <<>> THEN <<>> ELSE BytesLE(Head(flat)) \o ToBytes(Tail(flat))

\* Lines 111-113: waveform_bytes of a sample matrix.
WaveformBytes(d_signal) ==
  ToBytes(FlattenC([s \in DOMAIN d_signal |->
                      [c \in DOMAIN d_signal[s] |-> AsInt16(d_signal[s][c])]]))

\* Lines 180-194 and 217: the artifact saved for a record, with its payload.
Phase1Artifact(d_signal) ==
  [data |-> WaveformBytes(d_signal)] @@
  Artifact(TRUE, TRUE, Len(d_signal[1]), Len(d_signal), 500, "SS", 16, TRUE,
           Len(WaveformBytes(d_signal)))

\* A ledger in which row 1 is still to convert and every other row is done.
OneToDoCsv ==
  Csv([i \in Rows |-> IF i = 1 THEN FreshRow(i) ELSE RecordedCsv.rows[i]])

\* The record of study 1 in wfdb_dir is any of SampleMatrices.
InitLayout ==
  /\ \E m \in SampleMatrices :
       cfg = [d_signal |-> m] @@ Config(TRUE, TRUE, NormIds, 0, 1, FALSE)
  /\ files = [p \in AllPaths |-> IF p = DcmPath(N1) THEN NoFile ELSE GoodArtifact]
  /\ durable = OneToDoCsv
  /\ errlog = <<>>
  /\ pc = "idle"
  /\ df = <<>>
  /\ todo = <<>>
  /\ tasks = <<>>
  /\ pool = "none"
  /\ buffer = <<>>
  /\ done = 0
  /\ runsLeft = 1
  /\ parquet = NotBuilding
  /\ hist = [NoHistory EXCEPT !.dur0 = durable]

\* One run that converts the record.
NextLayout ==
  \/ StartRun
  \/ Submit
  \/ \E k \in Rows : WorkerStart(k)
  \/ \E k \in Rows : ChildWrite(k, Phase1Artifact(cfg.d_signal))
  \/ \E k \in Rows : ChildReport(k)
  \/ \E k \in Rows : Collect(k)
  \/ ExitLoop
  \/ OpenCsv
  \/ CloseCsv

SpecLayout == InitLayout /\ [][NextLayout]_vars

\* ------------------------------------------- make_channel_source_sequence
\* LEAD_MDC_CID3001: label -> (code value, code meaning).
LEAD_MDC_CID3001 ==
  [I   |-> <<"2:1", "Lead I">>,
   II  |-> <<"2:2", "Lead II">>,
   III |-> <<"2:61", "Lead III">>,
   aVR |-> <<"2:62", "aVR, augmented voltage, right">>,
   aVL |-> <<"2:63", "aVL, augmented voltage, left">>,
   aVF |-> <<"2:64", "aVF, augmented voltage, foot">>,
   V1  |-> <<"2:3", "Lead V1">>,
   V2  |-> <<"2:4", "Lead V2">>,
   V3  |-> <<"2:5", "Lead V3">>,
   V4  |-> <<"2:6", "Lead V4">>,
   V5  |-> <<"2:7", "Lead V5">>,
   V6  |-> <<"2:8", "Lead V6">>]

\* A coded entry; the meaning is the sequence of the pieces of its text.
CodedEntry(scheme, value, meaning) ==
  [CodingSchemeDesignator |-> scheme, CodeValue |-> value, CodeMeaning |-> meaning]

MakeSourceAlwaysLocal(lead_label) ==
  CodedEntry("99LOCAL", lead_label, <<"ECG Lead ", lead_label>>)

\* Lines 45-56.
MakeChannelSourceSequence(lead_label) ==
  IF lead_label \in DOMAIN LEAD_MDC_CID3001
  THEN CodedEntry("MDC", LEAD_MDC_CID3001[lead_label][1],
                  <<LEAD_MDC_CID3001[lead_label][2]>>)
  ELSE CodedEntry("99LOCAL", lead_label, <<"ECG Lead ", lead_label>>)

\* The signal names of a record: the twelve leads, and names the table does
\* not hold (another lead, a different spelling, an empty name).
LeadLabels == DOMAIN LEAD_MDC_CID3001 \cup {"X1", "V7", "avr", ""}

SigNames == UNION {[1..n -> LeadLabels] : n \in {1, 2}}

\* Lines 198-214: the artifact saved for a record with these signal names,
\* with its channel definition sequence.
ChannelArtifact(sig_name) ==
  [channels |-> [i \in DOMAIN sig_name |->
                   [ChannelLabel |-> sig_name[i],
                    ChannelSourceSequence |-> MakeChannelSourceSequence(sig_name[i])]]]
  @@ Artifact(TRUE, TRUE, Len(sig_name), 3, 500, "SS", 16, TRUE, Len(sig_name) * 3 * 2)

\* The record of study 1 in wfdb_dir has any of SigNames.
InitChannels ==
  /\ \E names \in SigNames :
       cfg = [sig_name |-> names] @@ Config(TRUE, TRUE, NormIds, 0, 1, FALSE)
  /\ files = [p \in AllPaths |-> IF p = DcmPath(N1) THEN NoFile ELSE GoodArtifact]
  /\ durable = OneToDoCsv
  /\ errlog = <<>>
  /\ pc = "idle"
  /\ df = <<>>
  /\ todo = <<>>
  /\ tasks = <<>>
  /\ pool = "none"
  /\ buffer = <<>>
  /\ done = 0
  /\ runsLeft = 1
  /\ parquet = NotBuilding
  /\ hist = [NoHistory EXCEPT !.dur0 = durable]

NextChannels ==
  \/ StartRun
  \/ Submit
  \/ \E k \in Rows : WorkerStart(k)
  \/ \E k \in Rows : ChildWrite(k, ChannelArtifact(cfg.sig_name))
  \/ \E k \in Rows : ChildReport(k)
  \/ \E k \in Rows : Collect(k)
  \/ ExitLoop
  \/ OpenCsv
  \/ CloseCsv

SpecChannels == InitChannels /\ [][NextChannels]_vars

\* ------------------------------------------------ a ledger with old errors
\* What an earlier run left: the rows of ok converted and recorded, every
\* other row recorded with the error of a conversion that timed out.
FailedCsv(ok) ==
  Csv([i \in Rows |->
         IF i \in ok THEN [id |-> RawId(i), path |-> DcmPath(NormalizeStudyId(RawId(i))), err |-> NA]
         ELSE [id |-> RawId(i), path |-> NA, err |-> ErrTimeout]])

FailedDir(ok) ==
  [p \in AllPaths |->
     IF \E i \in ok : p = DcmPath(NormalizeStudyId(RawId(i))) THEN GoodArtifact ELSE NoFile]

\* One invocation of run_batch on such a ledger, without --overwrite.
InitMerge ==
  \E ok \in SUBSET Rows, K \in CheckpointIntervals, W \in WorkerCounts,
     metaOk \in BOOLEAN :
    /\ cfg = Config(TRUE, metaOk, NormIds, K, W, FALSE)
    /\ files = FailedDir(ok)
    /\ durable = FailedCsv(ok)
    /\ errlog = <<>>
    /\ pc = "idle"
    /\ df = <<>>
    /\ todo = <<>>
    /\ tasks = <<>>
    /\ pool = "none"
    /\ buffer = <<>>
    /\ done = 0
    /\ runsLeft = 1
    /\ parquet = NotBuilding
    /\ hist = [NoHistory EXCEPT !.dur0 = durable]

SpecMerge == InitMerge /\ [][Next]_vars

\* ------------------------------------------------ a first run on old files
\* What dcm_dir may hold for each id when no ledger has been written yet:
\* nothing, a valid artifact, or a truncated one.
FoundFiles == [AllPaths -> {NoFile, GoodArtifact, TruncatedArtifact}]

\* One invocation of run_batch from input_csv, with or without --overwrite,
\* on any such directory; the metadata table may lack the id of row 2.
InitSkip ==
  \E fs \in FoundFiles, overwrite \in BOOLEAN, W \in WorkerCounts,
     meta \in {NormIds, NormIds \ {N2}} :
    /\ cfg = Config(TRUE, TRUE, meta, 0, W, overwrite)
    /\ files = fs
    /\ durable = AbsentCsv
    /\ errlog = <<>>
    /\ pc = "idle"
    /\ df = <<>>
    /\ todo = <<>>
    /\ tasks = <<>>
    /\ pool = "none"
    /\ buffer = <<>>
    /\ done = 0
    /\ runsLeft = 1
    /\ parquet = NotBuilding
    /\ hist = [NoHistory EXCEPT !.dur0 = durable]

NextSkip ==
  \/ StartRun
  \/ Submit
  \/ \E k \in Rows : WorkerStart(k)
  \/ \E k \in Rows : WorkerRaise(k)
  \/ \E k \in Rows, art \in Artifacts : ChildWrite(k, art)
  \/ \E k \in Rows : ChildReport(k)
  \/ \E k \in Rows : ChildRaise(k)
  \/ \E k \in Rows : Collect(k)
  \/ ExitLoop
  \/ OpenCsv
  \/ CloseCsv

SpecSkip == InitSkip /\ [][NextSkip]_vars

\* ------------------------------------------------- the spellings of an id
\* How the id column of a task list may spell the id d: as it is, as a
\* float rendering, padded, and, the column being one of strings, with a
\* second ".0" or a blank before the ".0".
IdSpellings(d) ==
  {<<d>>, <<d, ".", "0">>, <<" ", d, " ">>, <<d, ".", "0", ".", "0">>,
   <<d, " ", ".", "0">>}

\* The task lists in which row i spells the id Digits[i].
SpelledLedgers ==
  {[i \in Rows |-> [id |-> f[i], path |-> NA, err |-> NA]] :
     f \in {g \in [Rows -> UNION {IdSpellings(Digits[i]) : i \in Rows}] :
              \A i \in Rows : g[i] \in IdSpellings(Digits[i])}}

\* One invocation of run_batch on such a task list; the metadata table
\* spells the ids as the task list does, and the output directory is empty.
InitNorm ==
  \E rows \in SpelledLedgers, K \in {0, 1} :
    LET meta == {NormalizeStudyId(rows[i].id) : i \in Rows}
    IN  /\ cfg = Config(TRUE, TRUE, meta, K, 1, FALSE)
        /\ files = [p \in {DcmPath(n) : n \in meta} |-> NoFile]
        /\ durable = Csv(rows)
        /\ errlog = <<>>
        /\ pc = "idle"
        /\ df = <<>>
        /\ todo = <<>>
        /\ tasks = <<>>
        /\ pool = "none"
        /\ buffer = <<>>
        /\ done = 0
        /\ runsLeft = 1
        /\ parquet = NotBuilding
        /\ hist = [NoHistory EXCEPT !.dur0 = durable]

NextNorm ==
  \/ StartRun
  \/ Submit
  \/ \E k \in Rows : WorkerStart(k)
  \/ \E k \in Rows : ChildWrite(k, GoodArtifact)
  \/ \E k \in Rows : ChildReport(k)
  \/ \E k \in Rows : ChildRaise(k)
  \/ \E k \in Rows : Collect(k)
  \/ ExitLoop
  \/ OpenCsv
  \/ CloseCsv

SpecNorm == InitNorm /\ [][NextNorm]_vars

\* ------------------------------------------------------------ build_parquet
RunBatchVars == <<cfg, files, durable, errlog, pc, df, todo, tasks, pool,
                  buffer, done, runsLeft, hist>>

\* explode_dataset on the file at position i: its rows, told apart by the
\* file and their place in it.
ExplodeDataset(i, f) == [j \in 1..f.rows |-> <<i, j>>]

\* write_shard: part-<shard_idx>.parquet holds the rows, replacing what a
\* file of that name held.
WriteShard(out_dir, shard_idx, rows) ==
  [i \in DOMAIN out_dir \cup {shard_idx} |->
     IF i = shard_idx THEN rows ELSE out_dir[i]]

\* Lines 289-293.
ShardIfFull(b) ==
  IF Len(b.buffer) >= b.shard_rows
  THEN [b EXCEPT !.out_dir = WriteShard(b.out_dir, b.shard_idx, b.buffer),
                 !.shard_idx = @ + 1,
                 !.buffer = <<>>]
  ELSE b

\* Lines 264-265: n_files += 1; max_files is not None and n_files > max_files.
LimitReached(b) ==
  b.max_files # <<>> /\ b.n_files + 1 > b.max_files[1]

\* Lines 263-266: the iterator yields a file, it is counted, and the loop
\* breaks on the limit.
BreakOnLimit ==
  /\ parquet.pc = "loop"
  /\ parquet.next <= Len(parquet.input)
  /\ LimitReached(parquet)
  /\ parquet' = [parquet EXCEPT !.n_files = @ + 1, !.pc = "flush"]
  /\ UNCHANGED RunBatchVars

\* Lines 263-293 for one file below the limit: count it, read and explode
\* it (or count it as bad), and write a shard when the buffer is full.
ReadFile ==
  /\ parquet.pc = "loop"
  /\ parquet.next <= Len(parquet.input)
  /\ ~LimitReached(parquet)
  /\ LET i == parquet.next
         f == parquet.input[i]
         rows == ExplodeDataset(i, f)
         counted == [parquet EXCEPT !.n_files = @ + 1, !.next = @ + 1,
                                    !.read = Append(@, i)]
         tried == IF f.ok
                  THEN [counted EXCEPT !.buffer = @ \o rows,
                                       !.n_rows = @ + Len(rows)]
                  ELSE [counted EXCEPT !.n_bad = @ + 1]
     IN  parquet' = ShardIfFull(tried)
  /\ UNCHANGED RunBatchVars

\* The iterator is exhausted.
EndOfFiles ==
  /\ parquet.pc = "loop"
  /\ parquet.next > Len(parquet.input)
  /\ parquet' = [parquet EXCEPT !.pc = "flush"]
  /\ UNCHANGED RunBatchVars

\* Lines 295-315: flush what is left in the buffer and write the summary.
FlushAndSummarize ==
  /\ parquet.pc = "flush"
  /\ LET b == parquet
         flushed == IF b.buffer # <<>>
                    THEN WriteShard(b.out_dir, b.shard_idx, b.buffer)
                    ELSE b.out_dir
     IN  parquet' = [b EXCEPT
           !.out_dir = flushed,
           !.summary = [files_processed |-> b.n_files,
                        files_failed |-> b.n_bad,
                        rows_total |-> b.n_rows,
                        shards_written |->
                          b.shard_idx + (IF b.buffer # <<>> THEN 1 ELSE 0)],
           !.pc = "done"]
  /\ UNCHANGED RunBatchVars

\* The directories and command lines tried: up to three files, each one
\* unreadable or yielding 0, 1 or 2 rows; no limit or a limit of 0 to 3
\* files; shards of 1 to 3 rows.
FileCounts == {0, 1, 2, 3}
DicomFiles ==
  {[ok |-> FALSE, rows |-> 0]} \cup {[ok |-> TRUE, rows |-> n] : n \in {0, 1, 2}}
DicomRoots == UNION {[1..n -> DicomFiles] : n \in FileCounts}
MaxFilesArgs == {<<>>} \cup {<<n>> : n \in {0, 1, 2, 3}}
ShardRowsArgs == {1, 2, 3}

InitParquet ==
  /\ \E input \in DicomRoots, max_files \in MaxFilesArgs,
        shard_rows \in ShardRowsArgs :
       parquet = BuildState(input, max_files, shard_rows)
  /\ cfg = Config(TRUE, TRUE, NormIds, 0, 1, FALSE)
  /\ files = EmptyDir
  /\ durable = AbsentCsv
  /\ errlog = <<>>
  /\ pc = "idle"
  /\ df = <<>>
  /\ todo = <<>>
  /\ tasks = <<>>
  /\ pool = "none"
  /\ buffer = <<>>
  /\ done = 0
  /\ runsLeft = 0
  /\ hist = NoHistory

NextParquet ==
  \/ BreakOnLimit
  \/ ReadFile
  \/ EndOfFiles
  \/ FlushAndSummarize

SpecParquet == InitParquet /\ [][NextParquet]_vars

\* =================================================================== claims
IsWorkerCrash(r) == r.dcm_error # NA /\ Head(r.dcm_error) = "WorkerCrash: "

\* run_batch has just computed the to-do list; nothing has run since.
TodoJustComputed == pc = "dispatch" \/ (pc = "final_open" /\ todo = <<>>)

\* C1: when run_batch computes the to-do set from a ledger, a row is
\* re-queued if and only if its recorded output locator is null or empty, or
\* names a file that does not exist, or names a file the validator rejects,
\* whatever a prior run recorded for the row.
C1_TodoIffNotSuccess ==
  TodoJustComputed =>
    /\ \A i \in DOMAIN df :
         (df[i].id \in Range(todo)) <=>
           \/ df[i].path = NA
           \/ df[i].path = <<>>
           \/ ~FileAt(files, df[i].path).exists
           \/ ~ValidateDicomEcgQuick(FileAt(files, df[i].path)).ok
    /\ Range(todo) \subseteq {df[i].id : i \in DOMAIN df}

\* A row that a prior run recorded as successful, whose artifact has since
\* been deleted or corrupted, is re-queued.
C1_Witness ==
  /\ pc = "dispatch"
  /\ \E i \in DOMAIN df :
       /\ df[i].path # NA /\ df[i].err = NA
       /\ ~ValidateDicomEcgQuick(FileAt(files, df[i].path)).ok
       /\ df[i].id \in Range(todo)
  /\ \E i \in DOMAIN df : df[i].id \notin Range(todo)

\* The ledger rows are those of base, each with the result of its own
\* (normalized) task id among results, if there is one.
HoldsExactly(rows, base, results) ==
  /\ Len(rows) = Len(base)
  /\ \A i \in DOMAIN base :
       LET hits == {j \in DOMAIN results :
                      NormalizeStudyId(results[j].study_id) = NormalizeStudyId(base[i].id)}
       IN  /\ rows[i].id = base[i].id
           /\ hits = {} => rows[i] = base[i]
           /\ \A j \in hits : /\ rows[i].path = results[j].dcm_path
                              /\ rows[i].err = results[j].dcm_error

ArrivedResults(m) == [j \in 1..m |-> hist.arrived[j].res]

\* With checkpoint interval K > 0, while the run waits for results (between
\* checkpoint writes) after n of them have arrived, output_csv holds exactly
\* the first K * floor(n / K) results.
DurableHoldsCheckpoints ==
  (pc = "loop" /\ cfg.K > 0) =>
    LET m == cfg.K * (Len(hist.arrived) \div cfg.K)
    IN  IF m = 0 THEN durable = hist.dur0
        ELSE /\ durable.state = "ok"
             /\ HoldsExactly(durable.rows, hist.df0, ArrivedResults(m))

RestartedAfterKill ==
  TodoJustComputed /\ cfg.K > 0 /\ hist.restart /\ ~hist.midwrite

C3_KillLosesNoFlushedWork ==
  (pc = "idle" /\ hist.killed) =>
    \A f \in hist.flushed :
      /\ durable.state = "ok"
      /\ \E i \in DOMAIN durable.rows :
           /\ NormalizeStudyId(durable.rows[i].id) = f.id
           /\ durable.rows[i].path = f.path
           /\ durable.rows[i].err = f.err

Finished(k) == k \in DOMAIN tasks /\ tasks[k].st \in {"done", "collected"}

TimedOut(k) ==
  /\ Finished(k)
  /\ tasks[k].exc = "none"
  /\ tasks[k].res.dcm_error = ErrTimeout

\* C4: a task whose conversion does not return by the deadline gets the
\* result {output: null, error: Timeout}; when that result is returned the
\* child process is no longer running, and no output file is reported.
C4_TimeoutReapsChild ==
  \A k \in Rows : TimedOut(k) =>
    /\ tasks[k].res.dcm_path = NA
    /\ tasks[k].child = "dead"

\* C5: a hanging task does not stall the batch: however many children hang
\* and whatever the worker count, once the tasks are submitted every one of
\* them comes to a result, and the result of a task is its own (it carries
\* the task's id; a reported output is the task's own path).
C5_HangDoesNotStall ==
  /\ (pc = "loop") ~> (\A k \in DOMAIN tasks : Finished(k))
  /\ [](\A k \in Rows : Finished(k) =>
          LET r == FutureResult(tasks[k])
          IN  /\ r.study_id = Sid(k)
              /\ r.dcm_path \in {NA, DcmPath(Sid(k))})

\* With one worker, a task times out and the task queued behind it converts.
C5_Witness ==
  /\ cfg.W = 1
  /\ \E k, j \in DOMAIN tasks :
       /\ k < j
       /\ TimedOut(k)
       /\ tasks[k].child = "alive"
       /\ Finished(j)
       /\ tasks[j].exc = "none"
       /\ tasks[j].res.dcm_error = NA

\* C6: a crash that escapes one task becomes a WorkerCrash result for that
\* task only; the pool goes on, and every other in-flight or queued task
\* still runs and yields its own result.
C6_CrashIsolated ==
  cfg.metaOk =>
    /\ \A k \in DOMAIN tasks : tasks[k].exc # "none" => tasks[k].ran > 0
    /\ \A k, j \in DOMAIN tasks :
         (tasks[k].exc = "BrokenProcessPool" /\ tasks[j].exc = "BrokenProcessPool")
           => k = j

RunReturned ==
  /\ pc = "done"
  /\ Len(hist.arrived) = Len(todo)
  /\ buffer = <<>>
  /\ durable = Csv(df)

C8_ConfigErrorAborts ==
  (~cfg.hasIdCol \/ ~cfg.metaOk) =>
    /\ tasks = <<>>
    /\ hist.arrived = <<>>
    /\ pc # "done"

Arrivals(k) == Cardinality({j \in DOMAIN hist.arrived : hist.arrived[j].k = k})

\* C9: within one run every to-do id is dispatched exactly once and yields
\* exactly one result: none is skipped, none yields two, none is run again
\* after it failed.
C9_ExactlyOnce ==
  (pc \in Running \ {"dispatch"} \/ pc = "done") =>
    /\ Len(tasks) = Len(todo)
    /\ \A k \in DOMAIN tasks :
         /\ tasks[k].sid = todo[k]
         /\ tasks[k].ran <= 1
         /\ Arrivals(k) = IF tasks[k].st = "collected" THEN 1 ELSE 0
         /\ pc \in {"final_open", "final_flush", "done"} => Arrivals(k) = 1
    /\ Len(hist.arrived) = done

\* A run of two tasks is over, one of them having failed.
C9_Witness ==
  /\ pc = "done"
  /\ Len(todo) >= 2
  /\ \E j \in DOMAIN hist.arrived : hist.arrived[j].res.dcm_error # NA
  /\ \E j \in DOMAIN hist.arrived : hist.arrived[j].res.dcm_error = NA

\* C10: the final ledger does not depend on the order in which the results
\* arrive, nor on how the checkpoints group them: it is the ledger the run
\* started from with each task's result merged into the row of its id.
C10_OrderIndependent ==
  pc = "done" =>
    /\ durable.state = "ok"
    /\ HoldsExactly(durable.rows, hist.df0, ArrivedResults(Len(hist.arrived)))

\* The results arrived out of submission order and were merged by two
\* checkpoints.
C10_Witness ==
  /\ pc = "done"
  /\ Len(hist.arrived) >= 2
  /\ hist.arrived[1].k # 1
  /\ cfg.K = 1
  /\ hist.arrived[1].res.dcm_error # hist.arrived[2].res.dcm_error

\* The row of the ledger rows whose task id cell is id.
RowOf(rows, id) == CHOOSE i \in DOMAIN rows : rows[i].id = id

\* C11: after a run has returned normally, every result received in the run
\* is merged and written: for each to-do id the row of output_csv holds the
\* output path and the error of that task's result, and the result buffer is
\* empty, whatever the checkpoint interval.
C11_AllResultsDurable ==
  (pc = "done" /\ todo # <<>>) =>
    /\ buffer = <<>>
    /\ durable.state = "ok"
    /\ DOMAIN tasks = DOMAIN todo
    /\ \A k \in DOMAIN todo :
         /\ \E i \in DOMAIN durable.rows : durable.rows[i].id = todo[k]
         /\ LET row == durable.rows[RowOf(durable.rows, todo[k])]
                r == FutureResult(tasks[k])
            IN  /\ tasks[k].st = "collected"
                /\ row.path = r.dcm_path
                /\ row.err = r.dcm_error

\* A run returns whose checkpoint interval is 0 or does not divide the number
\* of results, with a failed and a successful task among them.
C11_Witness ==
  /\ pc = "done"
  /\ Len(todo) >= 2
  /\ cfg.K = 0 \/ Len(todo) % cfg.K # 0
  /\ \E k \in DOMAIN tasks : FutureResult(tasks[k]).dcm_error # NA
  /\ \E k \in DOMAIN tasks : FutureResult(tasks[k]).dcm_error = NA
  /\ durable = Csv(df)

\* Every row of the ledger on disk names an artifact that exists and that
\* validate_dicom_ecg_quick accepts.
LedgerAllValid ==
  /\ durable.state = "ok"
  /\ \A i \in DOMAIN durable.rows :
       /\ durable.rows[i].path \notin {NA, <<>>}
       /\ FileAt(files, durable.rows[i].path).exists
       /\ ValidateDicomEcgQuick(FileAt(files, durable.rows[i].path)).ok

InIdleRun ==
  /\ pc \in {"final_open", "final_flush", "done"}
  /\ hist.df0 # <<>>
  /\ todo = <<>>

\* C12: re-running is idempotent: a run started on a ledger whose every row
\* passes validation has nothing to do; it creates no pool, starts no worker
\* call and no child, changes no artifact, and when it has returned
\* output_csv holds what it held before the run.
C12_RerunIdempotent ==
  /\ [][(StartRun /\ LedgerAllValid) =>
          (todo' = <<>> /\ pc' = "final_open" /\ files' = files)]_vars
  /\ [][InIdleRun => files' = files \/ pc = "done"]_vars
  /\ [](InIdleRun =>
          /\ tasks = <<>>
          /\ pool = "none"
          /\ pc = "done" => durable = hist.dur0)

\* A second run on the ledger a first run completed: it has returned having
\* dispatched nothing, and the ledger is as the first run left it.
C12_Witness ==
  /\ pc = "done"
  /\ InIdleRun
  /\ LedgerAllValid
  /\ runsLeft < MaxRuns - 1
  /\ durable = hist.dur0
  /\ \E i \in DOMAIN durable.rows : durable.rows[i].path # PriorCsv.rows[i].path

IsSuccess(r) == r.dcm_path # NA /\ r.dcm_error = NA

\* The step in which the worker call of task k returns a value.
Returns(k) ==
  /\ k \in DOMAIN tasks /\ k \in DOMAIN tasks'
  /\ tasks[k].st \in {"queued", "spawned", "written"}
  /\ tasks'[k].st = "done"
  /\ tasks'[k].exc = "none"

\* C13: the validator is the sole arbiter of success: a worker call returns a
\* success (a path, no error) only when validate_dicom_ecg_quick accepts the
\* file at that path as the call returns it; and a child that has written an
\* artifact the validator rejects reports ValidationFailed with the
\* validator's reason and no path, which is not the text of a caught
\* exception.
C13_ValidatorArbitrates ==
  [][\A k \in Rows :
       /\ (Returns(k) /\ IsSuccess(tasks'[k].res)) =>
            /\ tasks'[k].res.dcm_path = DcmPath(Sid(k))
            /\ files' = files
            /\ ValidateDicomEcgQuick(FileAt(files, tasks'[k].res.dcm_path)).ok
       /\ (ChildReport(k)
             /\ ~ValidateDicomEcgQuick(FileAt(files, DcmPath(Sid(k)))).ok) =>
            /\ tasks'[k].res.dcm_path = NA
            /\ tasks'[k].res.dcm_error =
                 ErrValidation(ValidateDicomEcgQuick(FileAt(files, DcmPath(Sid(k)))).msg)
            /\ \A type \in {"ValueError", "OSError"} :
                 tasks'[k].res.dcm_error # ErrException(type)]_vars

\* One child wrote a truncated artifact and reported the length mismatch,
\* another wrote a good one and reported success.
C13_Witness ==
  /\ \E k \in DOMAIN tasks :
       /\ Finished(k) /\ tasks[k].exc = "none"
       /\ tasks[k].res.dcm_error = ErrValidation("WaveformData length mismatch")
       /\ FileAt(files, DcmPath(Sid(k))) = TruncatedArtifact
  /\ \E k \in DOMAIN tasks :
       /\ Finished(k) /\ tasks[k].exc = "none"
       /\ IsSuccess(tasks[k].res)
       /\ tasks[k].child = "dead"

\* The three outcomes of an isolated execution, by the result it yields.
CompletedSuccess(k, r) == r.dcm_path = DcmPath(Sid(k)) /\ r.dcm_error = NA

KilledTimeout(k, r) == r.dcm_path = NA /\ r.dcm_error = ErrTimeout

CompletedFailure(k, r) ==
  /\ r.dcm_path = NA
  /\ r.dcm_error \in
       {ErrNoResult, ErrException("ValueError")}
         \cup {ErrValidation(ValidateDicomEcgQuick(a).msg) :
                 a \in {NoFile, TruncatedArtifact}}

ExactlyOneOutcome(k) ==
  LET r == tasks[k].res
  IN  /\ tasks[k].exc = "none"
      /\ r.study_id = Sid(k)
      /\ Cardinality({o \in {"success", "failure", "timeout"} :
           \/ o = "success" /\ CompletedSuccess(k, r)
           \/ o = "failure" /\ CompletedFailure(k, r)
           \/ o = "timeout" /\ KilledTimeout(k, r)}) = 1

HadChild(k) == k \in DOMAIN tasks /\ tasks[k].child # "none"

\* An ended task stays ended, with the value or exception its future holds.
OutcomesTerminal ==
  [][\A k \in Rows : Finished(k) =>
       /\ k \in DOMAIN tasks'
       /\ tasks'[k].st \in {"done", "collected"}
       /\ tasks'[k].res = tasks[k].res
       /\ tasks'[k].exc = tasks[k].exc]_vars

\* C14 as stated: once a child is spawned the task ends in exactly one of
\* Completed-Success, Completed-Failure and Killed-Timeout, and stays there.
C14_Original ==
  /\ [](\A k \in Rows : (HadChild(k) /\ Finished(k)) => ExactlyOneOutcome(k))
  /\ OutcomesTerminal

\* C14, amended: an isolated execution whose supervising worker process
\* stays alive ends in exactly one of Completed-Success, Completed-Failure
\* and Killed-Timeout, and the outcome of an ended task never changes in the
\* run; when the pool breaks under a spawned child, the isolation layer
\* yields no outcome and the task's future holds BrokenProcessPool.
C14_IsolatedOutcomes ==
  /\ [](\A k \in Rows : (HadChild(k) /\ Finished(k)) =>
          \/ ExactlyOneOutcome(k)
          \/ tasks[k].exc = "BrokenProcessPool")
  /\ OutcomesTerminal

\* Two children were spawned; one ended Killed-Timeout and one
\* Completed-Success, and both results have been collected.
C14_Witness ==
  \E k, j \in DOMAIN tasks :
    /\ HadChild(k) /\ HadChild(j)
    /\ tasks[k].st = "collected" /\ tasks[j].st = "collected"
    /\ ExactlyOneOutcome(k) /\ KilledTimeout(k, tasks[k].res)
    /\ ExactlyOneOutcome(j) /\ CompletedSuccess(j, tasks[j].res)

\* The step in which a worker begins _convert_one_with_timeout on task k.
Begins(k) ==
  /\ k \in DOMAIN tasks /\ k \in DOMAIN tasks'
  /\ tasks[k].st = "queued"
  /\ tasks'[k].ran = tasks[k].ran + 1

ReturnsMissingMetadata(k) ==
  /\ tasks'[k].st = "done"
  /\ tasks'[k].exc = "none"
  /\ tasks'[k].child = "none"
  /\ tasks'[k].res = Result(Sid(k), NA, ErrMissing)
  /\ files' = files
  /\ pool' = pool /\ pc' = pc

\* C15 as stated: a worker that begins a task whose id is absent from the
\* metadata index returns {null, missing metadata} whatever the output
\* directory holds, spawning no child and raising nothing.
C15_Original ==
  [][\A k \in Rows :
       (Begins(k) /\ tasks'[k].exc = "none" /\ Sid(k) \notin cfg.meta)
         => ReturnsMissingMetadata(k)]_vars

\* C15, amended: ... unless overwrite is off and the output file of the id
\* already exists and passes validation: then the fast skip, which comes
\* before the metadata lookup, returns success with that path.  In both
\* cases no child is spawned and no exception escapes.
C15_MissingMetadata ==
  [][\A k \in Rows :
       (Begins(k) /\ tasks'[k].exc = "none" /\ Sid(k) \notin cfg.meta) =>
         IF ~cfg.overwrite
              /\ ValidateDicomEcgQuick(FileAt(files, DcmPath(Sid(k)))).ok
         THEN /\ tasks'[k].st = "done"
              /\ tasks'[k].child = "none"
              /\ tasks'[k].res = Result(Sid(k), DcmPath(Sid(k)), NA)
              /\ files' = files
         ELSE ReturnsMissingMetadata(k)]_vars

\* A task absent from the metadata index has failed for it after the run
\* went on (its result is collected), with no child, while a valid artifact
\* lies at its output path (overwrite is on).
C15_Witness ==
  \E k \in DOMAIN tasks :
    /\ Sid(k) \notin cfg.meta
    /\ tasks[k].st = "collected"
    /\ tasks[k].exc = "none"
    /\ tasks[k].child = "none"
    /\ tasks[k].res = Result(Sid(k), NA, ErrMissing)
    /\ ValidateDicomEcgQuick(FileAt(files, DcmPath(Sid(k)))).ok

\* Task k has a child that may be writing its output file.
InFlight(k) ==
  /\ k \in DOMAIN tasks
  /\ tasks[k].st \in {"spawned", "written"}
  /\ tasks[k].child = "alive"

\* C16: output paths are collision-free: for every to-do list that run_batch
\* builds from a ledger, no two tasks that are in flight at the same moment
\* have the same output path.
C16_CollisionFree ==
  \A k, j \in Rows :
    (k # j /\ InFlight(k) /\ InFlight(j)) => DcmPath(Sid(k)) # DcmPath(Sid(j))

\* What the validator is to accept: the file opens, has a waveform record,
\* positive channel count, sample count and sampling frequency, the
\* interpretation SS, 16 bits allocated, and a payload of
\* channels * samples * 2 bytes.
WellFormed(a) ==
  /\ a.exists
  /\ a.wfseq
  /\ a.n_ch > 0 /\ a.n_samp > 0 /\ a.fs > 0
  /\ a.interp = "SS"
  /\ a.bits = 16
  /\ a.hasdata
  /\ a.datalen = a.n_ch * a.n_samp * 2

\* C17: validate_dicom_ecg_quick returns True exactly for a well-formed
\* artifact, and otherwise False with a reason (a missing or unreadable file
\* is a reason, not an exception); a well-formed artifact with one payload
\* byte removed is rejected with the length-mismatch reason.  The resume
\* logic re-queues a recorded row exactly when its artifact is not
\* well-formed.
C17_ValidatorContract ==
  /\ \A p \in AllPaths :
       LET a == files[p]
           v == ValidateDicomEcgQuick(a)
       IN  /\ v.ok \in BOOLEAN
           /\ v.ok <=> WellFormed(a)
           /\ v.ok => v.msg = "OK"
           /\ ~v.ok => v.msg \notin {"OK", ""}
           /\ (a.datalen >= 0 /\ WellFormed([a EXCEPT !.datalen = @ + 1]))
                => (~v.ok /\ v.msg = "WaveformData length mismatch")
  /\ TodoJustComputed =>
       \A i \in DOMAIN df :
         (df[i].id \in Range(todo)) <=> ~WellFormed(FileAt(files, df[i].path))

\* The recorded artifact of row 1 is well-formed but for one missing payload
\* byte; the validator has rejected it and the row is re-queued.
C17_Witness ==
  /\ pc = "dispatch"
  /\ todo = <<RawId(1)>>
  /\ LET a == files[DcmPath(N1)]
     IN  /\ a.n_ch = 1
         /\ WellFormed([a EXCEPT !.datalen = @ + 1])
         /\ ValidateDicomEcgQuick(a).msg = "WaveformData length mismatch"

\* The error log only grows at its end.
AppendOnly ==
  [][/\ Len(errlog') >= Len(errlog)
     /\ SubSeq(errlog', 1, Len(errlog)) = errlog]_vars

Headers == {i \in DOMAIN errlog : errlog[i].kind = "run"}

\* The lines of the current run after its header.
Segment ==
  LET h == CHOOSE i \in Headers : \A j \in Headers : j <= i
  IN  SubSeq(errlog, h + 1, Len(errlog))

\* The lines after the header of the current run are one line, id and error,
\* for each failed result merged so far, and no other line.
SegmentIsFailures ==
  (pc \in Running \cup {"done"} /\ hist.df0 # <<>>) =>
    LET merged == Merged(hist, buffer)
        failed == {j \in DOMAIN merged : merged[j].res.dcm_error # NA}
    IN  /\ Headers # {}
        /\ Len(Segment) = Cardinality(failed)
        /\ \A j \in failed :
             Cardinality({i \in DOMAIN Segment :
                /\ Segment[i].kind = "err"
                /\ Segment[i].id = merged[j].res.study_id
                /\ Segment[i].err = merged[j].res.dcm_error}) = 1
        /\ pc = "done" => merged = hist.arrived

\* C18 as stated: the error log is append-only, every invocation of
\* run_batch writes one header with its to-do count, before any of its error
\* lines, and then one line per failed result and none per success.
C18_Original ==
  /\ AppendOnly
  /\ [][StartRun => errlog' = Append(errlog, RunHeader(Len(todo')))]_vars
  /\ [](SegmentIsFailures)

\* C18, amended: ... every invocation of run_batch that loads its ledger
\* (an invocation that fails on an unreadable ledger or a missing id column
\* writes nothing) writes one header with its to-do count ...
C18_ErrorLog ==
  /\ AppendOnly
  /\ [][StartRun =>
          IF pc' = "failed" THEN errlog' = errlog
          ELSE errlog' = Append(errlog, RunHeader(Len(todo')))]_vars
  /\ [][~StartRun => Headers' = Headers]_vars
  /\ [](SegmentIsFailures)

\* The second run on a ledger has returned; both runs logged their header
\* and then the line of a failed task.
C18_Witness ==
  /\ pc = "done"
  /\ Cardinality(Headers) = 2
  /\ Len(errlog) >= 4
  /\ errlog[2].kind = "err"
  /\ Len(Segment) >= 1
  /\ \E j \in DOMAIN hist.arrived : hist.arrived[j].res.dcm_error = NA

IsConversionError(r) ==
  /\ r.dcm_path = NA
  /\ r.dcm_error = ErrException("ValueError")
  /\ r.dcm_error[1] = "ValueError"

\* C19: an exception raised in the child while it reads the record or
\* builds the artifact is caught there and comes back as the result
\* {id, null, "<ExceptionType>: <text>"} of the worker call: the future
\* holds a value and no exception, the pool and the other tasks are
\* untouched, and when the run has returned the ledger row of the task
\* holds that error.
C19_ChildExceptionCaught ==
  /\ [][\A k \in Rows : ChildRaise(k) =>
          /\ tasks'[k].st = "done"
          /\ tasks'[k].exc = "none"
          /\ tasks'[k].res.study_id = Sid(k)
          /\ IsConversionError(tasks'[k].res)
          /\ pool' = pool /\ pc' = pc
          /\ \A j \in DOMAIN tasks : j # k => tasks'[j] = tasks[j]]_vars
  /\ [](\A k \in Rows :
          (Finished(k) /\ tasks[k].exc = "none" /\ IsConversionError(tasks[k].res)
             /\ pc = "done") =>
            /\ tasks[k].st = "collected"
            /\ \E i \in DOMAIN durable.rows :
                 /\ durable.rows[i].id = tasks[k].sid
                 /\ durable.rows[i].path = NA
                 /\ durable.rows[i].err = tasks[k].res.dcm_error)

\* The run has returned; one task failed on an exception in its child, and
\* a task that ran after it converted.
C19_Witness ==
  /\ pc = "done"
  /\ \E k, j \in DOMAIN tasks :
       /\ k < j
       /\ tasks[k].exc = "none" /\ IsConversionError(tasks[k].res)
       /\ tasks[k].child = "dead"
       /\ IsSuccess(tasks[j].res) /\ tasks[j].child = "dead"

\* The payload read back: byte pairs as little-endian signed 16-bit
\* integers, laid out sample-major and channel-minor.
ReadInt16LE(lo, hi) ==
  LET u == lo + 256 * hi
  IN  IF u >= 32768 THEN u - 65536 ELSE u

ReadBack(data, n_samp, n_ch) ==
  [s \in 1..n_samp |->
     [c \in 1..n_ch |->
        LET i == (s - 1) * n_ch + (c - 1)
        IN  ReadInt16LE(data[2 * i + 1], data[2 * i + 2])]]

\* C20: round-trip layout: the payload of the artifact written for a sample
\* matrix of C channels and S samples has C*S*2 bytes, and read back as
\* little-endian signed 16-bit integers, sample-major and channel-minor, it
\* is the original matrix.
C20_RoundTrip ==
  \A p \in AllPaths :
    "data" \in DOMAIN files[p] =>
      /\ files[p].n_samp = Len(cfg.d_signal)
      /\ files[p].n_ch = Len(cfg.d_signal[1])
      /\ Len(files[p].data) = files[p].n_ch * files[p].n_samp * 2
      /\ \A i \in DOMAIN files[p].data : files[p].data[i] \in 0..255
      /\ ReadBack(files[p].data, files[p].n_samp, files[p].n_ch) = cfg.d_signal

\* The twelve labels of the lead table.
RecognizedLabels ==
  {"I", "II", "III", "aVR", "aVL", "aVF", "V1", "V2", "V3", "V4", "V5", "V6"}

\* The channels of the artifact written for the record agree with its
\* signal names, a recognized label carrying its code of the lead table;
\* local(label) is what an unrecognized label is to carry.
ChannelsCoded(local(_)) ==
  \A p \in AllPaths :
    "channels" \in DOMAIN files[p] =>
      /\ DOMAIN files[p].channels = DOMAIN cfg.sig_name
      /\ \A i \in DOMAIN cfg.sig_name :
           LET label == cfg.sig_name[i]
               src == files[p].channels[i].ChannelSourceSequence
           IN  /\ files[p].channels[i].ChannelLabel = label
               /\ IF label \in RecognizedLabels
                  THEN /\ src.CodingSchemeDesignator = "MDC"
                       /\ src.CodeValue = LEAD_MDC_CID3001[label][1]
                       /\ src.CodeMeaning = <<LEAD_MDC_CID3001[label][2]>>
                  ELSE src = local(label)

\* An unrecognized label does not make the conversion fail.
LabelsNeverFail ==
  \A k \in Rows :
    (Finished(k) /\ tasks[k].child = "dead") =>
      tasks[k].exc = "none" /\ IsSuccess(tasks[k].res)

VerbatimLocal(label) == CodedEntry("99LOCAL", label, <<label>>)

PrefixedLocal(label) == CodedEntry("99LOCAL", label, <<"ECG Lead ", label>>)

\* C21 as stated: a recognized label yields its standard code, any other
\* label a local code with the label verbatim as code value and as
\* description, and the conversion does not fail.
C21_Original == ChannelsCoded(VerbatimLocal) /\ LabelsNeverFail

\* C21, amended: ... any other label a local code (99LOCAL) whose code value
\* is the label verbatim and whose description is "ECG Lead " followed by
\* the label ...
C21_ChannelIdentity == ChannelsCoded(PrefixedLocal) /\ LabelsNeverFail

\* A record with the channels V1 and X1 has been converted with success.
C21_Witness ==
  /\ cfg.sig_name = <<"V1", "X1">>
  /\ \E k \in DOMAIN tasks : tasks[k].st = "collected" /\ IsSuccess(tasks[k].res)
  /\ files[DcmPath(N1)].channels[1].ChannelSourceSequence.CodeValue = "2:3"
  /\ files[DcmPath(N1)].channels[2].ChannelSourceSequence.CodeValue = "X1"

\* Exactly one of output locator and error is non-null.
ExactlyOneNonNull(r) == (r.dcm_path = NA) # (r.dcm_error = NA)

\* C22: every TaskResult has exactly one of output locator and error
\* non-null, on every path that produces one: the value a worker call
\* returns (fast skip, missing metadata, child success, validation failure,
\* child exception, timeout, no result), and the result the collect loop
\* receives or builds for a crashed worker, in the buffer and in the order
\* of arrival.
C22_ExactlyOneField ==
  /\ \A k \in DOMAIN tasks :
       (tasks[k].st \in {"done", "collected"} /\ tasks[k].exc = "none") =>
         ExactlyOneNonNull(tasks[k].res)
  /\ \A j \in DOMAIN buffer : ExactlyOneNonNull(buffer[j])
  /\ \A j \in DOMAIN hist.arrived : ExactlyOneNonNull(hist.arrived[j].res)

\* A run has received a success and the result built for a crashed worker.
C22_Witness ==
  \E i, j \in DOMAIN hist.arrived :
    /\ hist.arrived[i].res.dcm_path # NA
    /\ hist.arrived[j].res.dcm_error # NA
    /\ Head(hist.arrived[j].res.dcm_error) = "WorkerCrash: "

\* The step in which run_batch calls _apply_results on a non-empty batch.
MergeStep == pc = "loop" /\ pc' \in {"ckpt_open", "final_open"}

\* The batch of that call: the results received since the last merge.
MergedBatch ==
  SubSeq(hist'.arrived, Len(hist.arrived) - Len(buffer) + 1, Len(hist'.arrived))

\* C23: _apply_results changes only the output locator and the error of the
\* ledger rows whose normalized id is in the batch: no row is added or
\* removed, every row keeps its columns (the temporary column is gone) and
\* its id, a row whose id is not in the batch is unchanged, and a row whose
\* id is in the batch takes the fields of a result of the batch for that id,
\* so that a success leaves no earlier error.
C23_ApplyFrame ==
  [][MergeStep =>
       /\ DOMAIN df' = DOMAIN df
       /\ \A i \in DOMAIN df :
            LET inBatch ==
                  {j \in DOMAIN MergedBatch :
                     MergedBatch[j].res.study_id = NormalizeStudyId(df[i].id)}
            IN  /\ DOMAIN df'[i] = DOMAIN df[i]
                /\ "sid_norm" \notin DOMAIN df'[i]
                /\ df'[i].id = df[i].id
                /\ inBatch = {} => df'[i] = df[i]
                /\ inBatch # {} =>
                     \E j \in inBatch :
                       /\ df'[i].path = MergedBatch[j].res.dcm_path
                       /\ df'[i].err = MergedBatch[j].res.dcm_error
                       /\ df'[i].path # NA => df'[i].err = NA]_vars

\* A merge has cleared the timeout recorded for row 2, which was converted,
\* and left the row of study 1, successful and not re-queued, as it was.
C23_Witness ==
  /\ pc \in {"ckpt_open", "final_open"}
  /\ Len(df) >= 2 /\ Len(hist.df0) >= 2
  /\ hist.df0[2].err = ErrTimeout
  /\ df[2].path = DcmPath(N2) /\ df[2].err = NA
  /\ df[1] = hist.df0[1] /\ df[1].path = DcmPath(N1)
  /\ \A j \in DOMAIN todo : todo[j] # df[1].id

\* The output file of task k exists and passes validation as the call begins.
OutputIsValid(k) ==
  /\ DcmPath(Sid(k)) \in DOMAIN files
  /\ files[DcmPath(Sid(k))].exists
  /\ ValidateDicomEcgQuick(files[DcmPath(Sid(k))]).ok

\* C24: a worker call that begins with overwrite off and a valid output file
\* returns success with that path, spawns no child and leaves the file as it
\* is; with overwrite on, or the file missing or invalid, the call goes on to
\* the metadata lookup (failing there for an absent id) and spawns the child
\* of a fresh conversion.
C24_FastSkip ==
  [][\A k \in Rows :
       (Begins(k) /\ tasks'[k].exc = "none") =>
         IF ~cfg.overwrite /\ OutputIsValid(k)
         THEN /\ tasks'[k].st = "done"
              /\ tasks'[k].child = "none"
              /\ tasks'[k].res.dcm_path = DcmPath(Sid(k))
              /\ tasks'[k].res.dcm_error = NA
              /\ files' = files
         ELSE IF Sid(k) \in cfg.meta
         THEN /\ tasks'[k].st = "spawned"
              /\ tasks'[k].child = "alive"
         ELSE /\ tasks'[k].st = "done"
              /\ tasks'[k].child = "none"
              /\ tasks'[k].res.dcm_path = NA
              /\ tasks'[k].res.dcm_error = ErrMissing]_vars

\* With overwrite off one task was skipped on its valid file, never having
\* had a child, and another was converted by a child of its own.
C24_Witness ==
  /\ ~cfg.overwrite
  /\ \E j, k \in DOMAIN tasks :
       /\ tasks[j].st = "collected" /\ tasks[j].child = "none"
       /\ tasks[j].res.dcm_path = DcmPath(Sid(j))
       /\ files[DcmPath(Sid(j))] = GoodArtifact
       /\ tasks[k].st = "collected" /\ tasks[k].child = "dead"
       /\ tasks[k].res.dcm_path = DcmPath(Sid(k))

\* C25: _normalize_study_id is idempotent on the ids it is given, so that
\* the id of every result received, normalized again by _apply_results,
\* equals the once-normalized id of the ledger row the task was dispatched
\* from, and that row holds the result once the run has returned.
C25_NormalizeIdempotent ==
  \A j \in DOMAIN hist.arrived :
    LET k == hist.arrived[j].k
        r == hist.arrived[j].res
    IN  /\ NormalizeStudyId(NormalizeStudyId(tasks[k].sid))
             = NormalizeStudyId(tasks[k].sid)
        /\ NormalizeStudyId(r.study_id) = NormalizeStudyId(tasks[k].sid)
        /\ pc = "done" =>
             \E i \in DOMAIN df :
               /\ df[i].id = tasks[k].sid
               /\ df[i].path = r.dcm_path
               /\ df[i].err = r.dcm_error

RECURSIVE RowsWritten(_, _)
\* How many rows the shard files of the set idx hold together.
RowsWritten(out_dir, idx) ==
  IF idx = {} THEN 0
  ELSE LET i == CHOOSE i \in idx : TRUE
       IN  Len(out_dir[i]) + RowsWritten(out_dir, idx \ {i})

\* How often the row x is written, over all shard files.
TimesWritten(out_dir, x) ==
  Cardinality({p \in UNION {{i} \X DOMAIN out_dir[i] : i \in DOMAIN out_dir} :
                 out_dir[p[1]][p[2]] = x})

\* At most N files are read.
C26_LimitKept ==
  (parquet.pc = "done" /\ parquet.max_files # <<>>) =>
    Len(parquet.read) <= parquet.max_files[1]

\* rows_total and shards_written match the shard files, which are numbered
\* from 0 and hold every row of every readable file read exactly once.
C26_ShardsMatch ==
  parquet.pc = "done" =>
    /\ parquet.summary.rows_total
         = RowsWritten(parquet.out_dir, DOMAIN parquet.out_dir)
    /\ parquet.summary.shards_written = Cardinality(DOMAIN parquet.out_dir)
    /\ DOMAIN parquet.out_dir = 0..(Cardinality(DOMAIN parquet.out_dir) - 1)
    /\ \A k \in 1..Len(parquet.read) :
         LET i == parquet.read[k]
         IN  \A j \in 1..parquet.input[i].rows :
               TimesWritten(parquet.out_dir, <<i, j>>)
                 = (IF parquet.input[i].ok THEN 1 ELSE 0)
    /\ \A i \in DOMAIN parquet.out_dir :
         \A j \in DOMAIN parquet.out_dir[i] :
           \E k \in DOMAIN parquet.read :
             parquet.out_dir[i][j][1] = parquet.read[k]

\* C26: in build_parquet, whatever the files and the limit N, at most N
\* files are read, files_processed is the number of files read, rows_total
\* the number of rows written, shards_written the number of shard files, and
\* the shards are numbered from 0 with every row in exactly one of them.
C26_SummaryMatches ==
  /\ C26_LimitKept
  /\ C26_ShardsMatch
  /\ parquet.pc = "done" =>
       parquet.summary.files_processed = Len(parquet.read)

====
